---- MODULE Spec2Model ----
(***************************************************************************)
(* Model of the document processing service (src/src/index.ts): the        *)
(* DocumentProcessor class and the POST /process handler.                   *)
(*                                                                         *)
(* Strings are sequences of one-character strings, so that concatenation,  *)
(* lower-casing, suffix tests and path.extname are computed, not assumed.  *)
(* A request's handler is an async function: the code between two awaited  *)
(* I/O operations runs without interruption, so there is one action per    *)
(* I/O completion, and the actions of different requests interleave.       *)
(***************************************************************************)
EXTENDS Integers, Sequences, FiniteSets, TLC

\* ------------------------------------------------------------------ bounds
NumReqs == 2      \* requests in flight at once
NumFairReqs == 1  \* requests of the fair specification, at most NumReqs
MaxClock == 1     \* the clock takes the millisecond values 0..MaxClock
MaxSheets == 2    \* sheets of a workbook handed to processXLSX
MaxRows == 2      \* rows of such a sheet

Reqs == 1..NumReqs

VARIABLES
    pc,        \* pc[r]: the awaited operation request r is suspended at
    req,       \* req[r]: req.file of request r (NoFile when the field is absent)
    tmp,       \* the requests whose temporary upload file exists in uploads/
    buf,       \* buf[r]: fileBuffer, the bytes read from the temporary file
    doc,       \* doc[r]: content / metadata / result of the processor call
    out,       \* out[r]: outputFilename computed by saveProcessedDocument
    resp,      \* resp[r]: the responses sent for request r, in order
    log,       \* log[r]: the pipeline steps of request r, started and ended
    remote,    \* remote[r]: the answers request r got from the remote service
    ops,       \* ops[r]: the archive operations of request r that have settled
    dirs,      \* the directories that exist
    files,     \* the archive: path -> data of the file at that path
    clock,     \* the system clock, in milliseconds
    ctor,      \* position of the constructor's un-awaited ensureDirectoryExists
    wb,        \* the buffer handed to processXLSX (FlattenSpec)
    flat       \* the text processXLSX returned for it

vars == <<pc, req, tmp, buf, doc, out, resp, log, remote, ops, dirs, files,
          clock, ctor, wb, flat>>

\* ----------------------------------------------------------------- strings
Range(s) == {s[i] : i \in 1..Len(s)}

Max(S) == CHOOSE x \in S : \A y \in S : y <= x

\* String.prototype.toLowerCase, on the letters the model's names use
LowerChar(c) ==
    CASE c = "C" -> "c"
      [] c = "S" -> "s"
      [] c = "V" -> "v"
      [] c = "X" -> "x"
      [] c = "L" -> "l"
      [] c = "P" -> "p"
      [] c = "D" -> "d"
      [] c = "F" -> "f"
      [] OTHER -> c

toLowerCase(s) == [i \in 1..Len(s) |-> LowerChar(s[i])]

\* String.prototype.endsWith
endsWith(s, suffix) ==
    /\ Len(suffix) <= Len(s)
    /\ SubSeq(s, Len(s) - Len(suffix) + 1, Len(s)) = suffix

\* Array.prototype.join: the elements of seq (each a string) with sep between
RECURSIVE join(_, _)
join(seq, sep) ==
    IF seq = <<>> THEN <<>>
    ELSE IF Len(seq) = 1 THEN seq[1]
    ELSE seq[1] \o sep \o join(Tail(seq), sep)

TAB == <<"\t">>
NL == <<"\n">>

\* path.extname of a name without directory separators (the upload layer
\* hands over the base name): from the last "." to the end; empty when there
\* is no ".", when the only "." is the first character, and for "..".
extname(name) ==
    LET dotsAt == {i \in 1..Len(name) : name[i] = "."} IN
    IF dotsAt = {} THEN <<>>
    ELSE LET startDot == Max(dotsAt)
             preDotState ==
                 IF startDot = 1 THEN 0
                 ELSE IF \E i \in 1..(startDot - 1) : name[i] # "." THEN -1
                 ELSE 1
         IN IF \/ preDotState = 0
               \/ (preDotState = 1 /\ startDot = Len(name) /\ startDot = 2)
            THEN <<>>
            ELSE SubSeq(name, startDot, Len(name))

DotPdf == <<".", "p", "d", "f">>
DotDocx == <<".", "d", "o", "c", "x">>
DotXlsx == <<".", "x", "l", "s", "x">>
DotTxt == <<".", "t", "x", "t">>
DotCsv == <<".", "c", "s", "v">>

\* getMimeType: the fixed table, keyed by the lower-cased extension
getMimeType(filename) ==
    LET ext == toLowerCase(extname(filename)) IN
    CASE ext = DotPdf -> "application/pdf"
      [] ext = DotDocx -> "application/vnd.openxmlformats-officedocument.wordprocessingml.document"
      [] ext = DotXlsx -> "application/vnd.openxmlformats-officedocument.spreadsheetml.sheet"
      [] ext = DotTxt -> "text/plain"
      [] ext = DotCsv -> "text/csv"
      [] OTHER -> "application/octet-stream"

\* the handler's test: some of '.xlsx', '.csv' ends the lower-cased name
isSpreadsheet(originalname) ==
    \E ext \in {DotXlsx, DotCsv} : endsWith(toLowerCase(originalname), ext)

\* ------------------------------------------------- spreadsheet flattening
\* A row of sheet_to_json(sheet, {header: 1}) is an array of cells (kind
\* "array", empty for a blank row); the SheetRow type also admits a keyed
\* object (kind "object"), whose values are its cells in enumeration order.
IsArray(row) == row.kind = "array"
\* typeof row === 'object' && row !== null: true of arrays and of objects
IsNonNullObject(row) == row.kind \in {"array", "object"}
ObjectValues(row) == row.cells

SheetPrefix == <<"S", "h", "e", "e", "t", ":", " ">>

\* the body of jsonData.forEach: the text one row appends to result
RowText(row) ==
    IF IsArray(row) /\ Len(row.cells) > 0 THEN join(row.cells, TAB) \o NL
    ELSE IF IsNonNullObject(row) THEN join(ObjectValues(row), TAB) \o NL
    ELSE <<>>

RECURSIVE RowsText(_)
RowsText(rows) ==
    IF rows = <<>> THEN <<>> ELSE RowText(rows[1]) \o RowsText(Tail(rows))

\* the body of workbook.SheetNames.forEach: the text one sheet appends
SheetText(sheet, nSheets) ==
    (IF nSheets > 1 THEN SheetPrefix \o sheet.name \o NL ELSE <<>>)
        \o RowsText(sheet.rows) \o NL

RECURSIVE SheetsText(_, _)
SheetsText(sheets, nSheets) ==
    IF sheets = <<>> THEN <<>>
    ELSE SheetText(sheets[1], nSheets) \o SheetsText(Tail(sheets), nSheets)

\* processXLSX: read() decodes the buffer or throws, and the catch turns
\* every throw into 'Failed to process XLSX file'
processXLSX(buffer) ==
    IF buffer.kind = "xlsx"
    THEN [ok |-> TRUE, value |-> SheetsText(buffer.sheets, Len(buffer.sheets))]
    ELSE [ok |-> FALSE, value |-> <<"Failed to process XLSX file">>]

\* Papa.parse(content, {skipEmptyLines: true}): the rows of a delimited text
PapaParse(buffer) ==
    IF buffer.kind = "csv" THEN buffer.rows ELSE <<<<<<"?">>>>>>

RECURSIVE FilterNonEmpty(_)
FilterNonEmpty(rows) ==
    IF rows = <<>> THEN <<>>
    ELSE IF Len(rows[1]) > 0 THEN <<rows[1]>> \o FilterNonEmpty(Tail(rows))
    ELSE FilterNonEmpty(Tail(rows))

\* processCSV: non-empty rows, cells joined by a tab, rows by a newline
processCSV(buffer) ==
    LET rows == FilterNonEmpty(PapaParse(buffer)) IN
    [ok |-> TRUE,
     value |-> join([i \in 1..Len(rows) |-> join(rows[i], TAB)], NL)]

\* ------------------------------------------------------------- the uploads
Str(c) == <<c>>
ArrayRow(cells) == [kind |-> "array", cells |-> cells]
ObjectRow(cells) == [kind |-> "object", cells |-> cells]

Bytes(id) == [kind |-> "bytes", id |-> id, sheets |-> <<>>, rows |-> <<>>]
Xlsx(id, sheets) == [kind |-> "xlsx", id |-> id, sheets |-> sheets, rows |-> <<>>]
Csv(id, rows) == [kind |-> "csv", id |-> id, sheets |-> <<>>, rows |-> rows]
NoBody == [kind |-> "none", id |-> 0, sheets |-> <<>>, rows |-> <<>>]

File(originalname, body) ==
    [present |-> TRUE, originalname |-> originalname, body |-> body]
NoFile == [present |-> FALSE, originalname |-> <<>>, body |-> NoBody]

\* The files a client uploads: a document, a workbook under an upper-case
\* extension, a delimited text named by the bare suffix, a corrupt workbook.
Uploads ==
    { File(<<"a", ".", "p", "d", "f">>, Bytes(1)),
      File(<<"b", ".", "X", "L", "S", "X">>,
           Xlsx(2, <<[name |-> Str("s"),
                      rows |-> <<ArrayRow(<<Str("x"), Str("y")>>),
                                 ArrayRow(<<>>)>>]>>)),
      File(<<".", "c", "s", "v">>, Csv(3, <<<<Str("x"), Str("y")>>>>)),
      File(<<"c", ".", "x", "l", "s", "x">>, Bytes(4)) }

Digit(n) == CASE n = 0 -> "0" [] n = 1 -> "1" [] n = 2 -> "2" [] n = 3 -> "3"
              [] n = 4 -> "4" [] n = 5 -> "5" [] n = 6 -> "6" [] n = 7 -> "7"
              [] n = 8 -> "8" [] n = 9 -> "9"

\* ------------------------------------------------------- the remote service
\* The remote service is a black box: its answers are functions of the bytes
\* and the declared content type, and its failures are nondeterministic.
StatusTexts == {"Internal Server Error", "Unprocessable Entity"}
TikaText(buffer) == <<"text of ", Digit(buffer.id)>>
TikaMeta(buffer, mimeType) == <<"meta of ", Digit(buffer.id), mimeType>>

\* ------------------------------------------------------------- persistence
\* Date.prototype.toISOString of an instant t milliseconds into the second
\* the model runs in: YYYY-MM-DDTHH:mm:ss.sssZ
toISOString(t) ==
    <<"2", "0", "2", "4", "-", "0", "1", "-", "0", "1", "T",
      "0", "0", ":", "0", "0", ":", "0", "0", ".">>
    \o <<Digit((t \div 100) % 10), Digit((t \div 10) % 10), Digit(t % 10)>>
    \o <<"Z">>

\* String.prototype.replace(/[:.]/g, '-')
replaceColonDot(s) ==
    [i \in 1..Len(s) |-> IF s[i] \in {":", "."} THEN "-" ELSE s[i]]

timestamp(now) == replaceColonDot(toISOString(now))

\* mutant of outputFilename: the uploaded name is left out of the archive name
outputFilenameStampOnly(now, filename) == timestamp(now)

\* outputFilename = `${timestamp}_${result.filename}`
outputFilename(now, filename) == timestamp(now) \o <<"_">> \o filename

CompletedDir == "completed"
OriginalsDir == "completed/originals"

\* outputPath + '.json'
jsonPath(name) == <<CompletedDir, name \o <<".", "j", "s", "o", "n">>>>
\* mutant of outputOriginalPath: the copy is stored under the uploaded name
\* alone (the 24 characters of the timestamp and the "_" are dropped)
outputOriginalPathUnstamped(name) == <<OriginalsDir, SubSeq(name, 26, Len(name))>>

\* path.join(this.completedDir, 'originals', outputFilename)
outputOriginalPath(name) == <<OriginalsDir, name>>

\* outputData, the object that is serialised into the JSON entry
outputData(result) ==
    [content |-> result.content,
     metadata |-> result.metadata,
     originalFilename |-> result.filename,
     mimeType |-> result.mimeType,
     processingDate |-> result.processingDate]

NoDoc == [content |-> <<>>, metadata |-> <<>>, filename |-> <<>>,
          mimeType |-> "", processingDate |-> -1]

\* ------------------------------------------------------------------- state
\* the state after module load: the constructor has called (and not awaited)
\* ensureDirectoryExists; ./completed exists or not (a fresh checkout)
Init ==
    /\ pc = [r \in Reqs |-> "idle"]
    /\ req = [r \in Reqs |-> NoFile]
    /\ tmp = {}
    /\ buf = [r \in Reqs |-> NoBody]
    /\ doc = [r \in Reqs |-> NoDoc]
    /\ out = [r \in Reqs |-> <<>>]
    /\ resp = [r \in Reqs |-> <<>>]
    /\ log = [r \in Reqs |-> <<>>]
    /\ remote = [r \in Reqs |-> <<>>]
    /\ ops = [r \in Reqs |-> <<>>]
    /\ dirs \in {{}, {CompletedDir}}
    /\ files = <<>>
    /\ clock = 0
    /\ ctor = "access"
    /\ wb = [buffer |-> NoBody, flattened |-> TRUE]
    /\ flat = [ok |-> FALSE, value |-> <<>>]

Logged(r, events) == log' = [log EXCEPT ![r] = @ \o events]

\* res.status(status).json(body): one more response of request r
Send(r, status, body) ==
    resp' = [resp EXCEPT ![r] = Append(@, [status |-> status, body |-> body])]

\* mutant of Catch: the error is logged and no response is sent
CatchSilent(r, message) ==
    /\ resp' = resp
    /\ pc' = [pc EXCEPT ![r] = "done"]

\* the handler's catch: 500 with the error's message as details
Catch(r, message) ==
    /\ Send(r, 500, [error |-> "Failed to process document", details |-> message])
    /\ pc' = [pc EXCEPT ![r] = "done"]

\* the remote service has answered a call of request r (status "OK", a
\* non-success status text, or "unreachable" when the fetch rejects)
Answered(r, call, status) ==
    remote' = [remote EXCEPT ![r] = Append(@, [call |-> call, status |-> status])]

\* an archive operation of request r has settled: ok when it succeeded, made
\* when it left a file or directory at path
Settled(r, op, path, ok, made) ==
    ops' = [ops EXCEPT ![r] = Append(@, [op |-> op, path |-> path, ok |-> ok,
                                         made |-> made])]

\* ----------------------------------------------------------- the constructor
\* ensureDirectoryExists, called and not awaited by the constructor:
\* fs.access(completedDir) has completed
EnsureAccess ==
    /\ ctor = "access"
    /\ ctor' = IF CompletedDir \in dirs THEN "done" ELSE "mkdir"
    /\ UNCHANGED <<pc, req, tmp, buf, doc, out, resp, log, remote, ops, dirs, files,
                   clock, wb, flat>>

\* fs.mkdir(completedDir, {recursive: true}) has completed
EnsureMkdir ==
    /\ ctor = "mkdir"
    /\ dirs' = dirs \cup {CompletedDir}
    /\ ctor' = "done"
    /\ UNCHANGED <<pc, req, tmp, buf, doc, out, resp, log, remote, ops, files,
                   clock, wb, flat>>

\* the clock advances; an instant that no request has read (new Date()) is
\* indistinguishable from the one before it, so only read instants are left
Tick ==
    /\ clock < MaxClock
    /\ \E r \in Reqs : doc[r].processingDate = clock
    /\ clock' = clock + 1
    /\ UNCHANGED <<pc, req, tmp, buf, doc, out, resp, log, remote, ops, dirs, files,
                   ctor, wb, flat>>

\* ---------------------------------------------------------------- the handler
\* POST /process reaches the handler, upload.single('file') having stored the
\* file, if any, in uploads/: 400 without a file, else fs.readFile is issued.
\* Requests are numbered in the order they reach the handler.
Post(r) ==
    /\ pc[r] = "idle"
    /\ \A q \in Reqs : q < r => pc[q] # "idle"
    /\ \E file \in Uploads \cup {NoFile} :
         /\ req' = [req EXCEPT ![r] = file]
         /\ IF ~file.present
            THEN /\ Send(r, 400, [error |-> "No file uploaded"])
                 /\ pc' = [pc EXCEPT ![r] = "done"]
                 /\ tmp' = tmp
            ELSE /\ tmp' = tmp \cup {r}
                 /\ pc' = [pc EXCEPT ![r] = "readFile"]
                 /\ resp' = resp
    /\ UNCHANGED <<buf, doc, out, log, remote, ops, dirs, files, clock, ctor, wb, flat>>

\* processSpreadsheet up to its first awaited I/O: the local flattening, then
\* getMetadata's fetch is issued; a throw goes through both catch blocks
StartSpreadsheet(r, file, filename) ==
    LET mimeType == getMimeType(filename)
        ext == toLowerCase(extname(filename))
        flattened == IF ext = DotXlsx THEN processXLSX(file)
                     ELSE IF ext = DotCsv THEN processCSV(file)
                     ELSE [ok |-> FALSE,
                           value |-> <<"Unsupported spreadsheet format">>]
    IN IF flattened.ok
       THEN /\ doc' = [doc EXCEPT ![r] = [NoDoc EXCEPT !.content = flattened.value,
                                                       !.filename = filename,
                                                       !.mimeType = mimeType]]
            /\ Logged(r, <<"flatten:start", "flatten:end", "meta:start">>)
            /\ pc' = [pc EXCEPT ![r] = "meta"]
            /\ resp' = resp
       ELSE /\ doc' = doc
            /\ Logged(r, <<"flatten:start", "flatten:fail">>)
            /\ Catch(r, flattened.value)

\* mutant of StartDocument: the fetches of /tika and /meta are issued together
StartDocumentParallel(r, file, filename) ==
    /\ doc' = [doc EXCEPT ![r] = [NoDoc EXCEPT !.filename = filename,
                                              !.mimeType = getMimeType(filename)]]
    /\ Logged(r, <<"tika:start", "meta:start">>)
    /\ pc' = [pc EXCEPT ![r] = "tika"]
    /\ resp' = resp

\* processDocument up to its first awaited I/O: the fetch of /tika is issued
StartDocument(r, file, filename) ==
    /\ doc' = [doc EXCEPT ![r] = [NoDoc EXCEPT !.filename = filename,
                                              !.mimeType = getMimeType(filename)]]
    /\ Logged(r, <<"tika:start">>)
    /\ pc' = [pc EXCEPT ![r] = "tika"]
    /\ resp' = resp

\* fs.readFile(req.file.path) has completed: dispatch on the file's name
ReadFileDone(r) ==
    /\ pc[r] = "readFile"
    /\ \/ /\ r \in tmp
          /\ buf' = [buf EXCEPT ![r] = req[r].body]
          /\ IF isSpreadsheet(req[r].originalname)
             THEN StartSpreadsheet(r, req[r].body, req[r].originalname)
             ELSE StartDocument(r, req[r].body, req[r].originalname)
       \/ /\ Catch(r, <<"EIO: read">>)
          /\ UNCHANGED <<buf, doc, log>>
    /\ UNCHANGED <<req, tmp, out, remote, ops, dirs, files, clock, ctor, wb, flat>>

\* ---------------------------------------------------------- processDocument
\* fetch(`${tikaUrl}/tika`) has settled: rejected, answered with a
\* non-success status, or answered ok (then response.text() is awaited)
TikaDone(r) ==
    /\ pc[r] = "tika"
    /\ \/ /\ Answered(r, "tika", "OK")
          /\ pc' = [pc EXCEPT ![r] = "tikaText"]
          /\ UNCHANGED <<resp, log>>
       \/ \E statusText \in StatusTexts :
            /\ Answered(r, "tika", statusText)
            /\ Catch(r, <<"Failed to extract text: ", statusText>>)
            /\ Logged(r, <<"tika:fail">>)
       \/ /\ Answered(r, "tika", "unreachable")
          /\ Catch(r, <<"request to /tika failed">>)
          /\ Logged(r, <<"tika:fail">>)
    /\ UNCHANGED <<req, tmp, buf, doc, out, ops, dirs, files, clock, ctor, wb, flat>>

\* contentResponse.text() has settled; on success getMetadata's fetch is issued
TikaTextDone(r) ==
    /\ pc[r] = "tikaText"
    /\ \/ /\ doc' = [doc EXCEPT ![r].content = TikaText(buf[r])]
          /\ Logged(r, <<"tika:end", "meta:start">>)
          /\ pc' = [pc EXCEPT ![r] = "meta"]
          /\ resp' = resp
       \/ /\ Catch(r, <<"request to /tika failed">>)
          /\ Logged(r, <<"tika:fail">>)
          /\ doc' = doc
    /\ UNCHANGED <<req, tmp, buf, out, remote, ops, dirs, files, clock, ctor, wb, flat>>

\* mutant of MetaDone: response.ok is not tested, a non-success answer is
\* parsed like a successful one
MetaDoneUnchecked(r) ==
    /\ pc[r] = "meta"
    /\ \/ /\ \E status \in {"OK"} \cup StatusTexts : Answered(r, "meta", status)
          /\ pc' = [pc EXCEPT ![r] = "metaJson"]
          /\ UNCHANGED <<resp, log>>
       \/ /\ Answered(r, "meta", "unreachable")
          /\ Catch(r, <<"request to /meta failed">>)
          /\ Logged(r, <<"meta:fail">>)
    /\ UNCHANGED <<req, tmp, buf, doc, out, ops, dirs, files, clock, ctor, wb, flat>>

\* -------------------------------------------------------------- getMetadata
\* fetch(`${tikaUrl}/meta`) has settled
MetaDone(r) ==
    /\ pc[r] = "meta"
    /\ \/ /\ Answered(r, "meta", "OK")
          /\ pc' = [pc EXCEPT ![r] = "metaJson"]
          /\ UNCHANGED <<resp, log>>
       \/ \E statusText \in StatusTexts :
            /\ Answered(r, "meta", statusText)
            /\ Catch(r, <<"Failed to get metadata: ", statusText>>)
            /\ Logged(r, <<"meta:fail">>)
       \/ /\ Answered(r, "meta", "unreachable")
          /\ Catch(r, <<"request to /meta failed">>)
          /\ Logged(r, <<"meta:fail">>)
    /\ UNCHANGED <<req, tmp, buf, doc, out, ops, dirs, files, clock, ctor, wb, flat>>

\* response.json() has settled; on success the result is built and
\* saveProcessedDocument runs up to its fs.writeFile
MetaJsonDone(r) ==
    /\ pc[r] = "metaJson"
    /\ \/ /\ doc' = [doc EXCEPT ![r].metadata = TikaMeta(buf[r], doc[r].mimeType),
                                ![r].processingDate = clock]
          /\ out' = [out EXCEPT ![r] = outputFilename(clock, doc[r].filename)]
          /\ Logged(r, <<"meta:end", "save:start">>)
          /\ pc' = [pc EXCEPT ![r] = "writeFile"]
          /\ resp' = resp
       \/ /\ Catch(r, <<"invalid json response body">>)
          /\ Logged(r, <<"meta:fail">>)
          /\ UNCHANGED <<doc, out>>
    /\ UNCHANGED <<req, tmp, buf, remote, ops, dirs, files, clock, ctor, wb, flat>>

\* ----------------------------------------------------- saveProcessedDocument
\* what a write that failed part-way leaves at its path
Truncated == outputData(NoDoc)

\* fs.writeFile(outputPath + '.json', ...) has settled; on success
\* fs.mkdir(originals, {recursive: true}) is issued
WriteFileDone(r) ==
    /\ pc[r] = "writeFile"
    /\ \/ /\ CompletedDir \in dirs
          /\ files' = (jsonPath(out[r]) :> outputData(doc[r])) @@ files
          /\ Settled(r, "writeFile", jsonPath(out[r]), TRUE, TRUE)
          /\ pc' = [pc EXCEPT ![r] = "mkdir"]
          /\ UNCHANGED <<resp, log>>
       \/ /\ CompletedDir \notin dirs
          /\ Settled(r, "writeFile", jsonPath(out[r]), FALSE, FALSE)
          /\ Catch(r, <<"ENOENT: no such file or directory, open">>)
          /\ Logged(r, <<"save:fail">>)
          /\ files' = files
       \/ /\ CompletedDir \in dirs
          /\ Catch(r, <<"EIO: write">>)
          /\ Logged(r, <<"save:fail">>)
          /\ \/ /\ Settled(r, "writeFile", jsonPath(out[r]), FALSE, FALSE)
                /\ files' = files
             \/ /\ Settled(r, "writeFile", jsonPath(out[r]), FALSE, TRUE)
                /\ files' = (jsonPath(out[r]) :> Truncated) @@ files
    /\ UNCHANGED <<req, tmp, buf, doc, out, remote, dirs, clock, ctor, wb, flat>>

\* fs.mkdir(path.dirname(outputOriginalPath), {recursive: true}) has settled;
\* on success fs.copyFile is issued
MkdirDone(r) ==
    /\ pc[r] = "mkdir"
    /\ \/ /\ dirs' = dirs \cup {CompletedDir, OriginalsDir}
          /\ Settled(r, "mkdir", <<OriginalsDir, <<>>>>, TRUE, OriginalsDir \notin dirs)
          /\ pc' = [pc EXCEPT ![r] = "copyFile"]
          /\ UNCHANGED <<resp, log>>
       \/ /\ Settled(r, "mkdir", <<OriginalsDir, <<>>>>, FALSE, FALSE)
          /\ Catch(r, <<"EACCES: permission denied, mkdir">>)
          /\ Logged(r, <<"save:fail">>)
          /\ dirs' = dirs
    /\ UNCHANGED <<req, tmp, buf, doc, out, remote, files, clock, ctor, wb, flat>>

\* mutant of CopyFileDone: a failed copy removes the JSON entry again
CopyFileDoneRollback(r) ==
    /\ pc[r] = "copyFile"
    /\ \/ /\ r \in tmp
          /\ OriginalsDir \in dirs
          /\ files' = (<<OriginalsDir, out[r]>> :> req[r].body) @@ files
          /\ Settled(r, "copyFile", <<OriginalsDir, out[r]>>, TRUE, TRUE)
          /\ Logged(r, <<"save:end">>)
          /\ pc' = [pc EXCEPT ![r] = "unlink"]
          /\ resp' = resp
       \/ /\ Settled(r, "copyFile", <<OriginalsDir, out[r]>>, FALSE, FALSE)
          /\ Catch(r, <<"EIO: copyfile">>)
          /\ Logged(r, <<"save:fail">>)
          /\ files' = [p \in DOMAIN files \ {ops[r][1].path} |-> files[p]]
    /\ UNCHANGED <<req, tmp, buf, doc, out, remote, dirs, clock, ctor, wb, flat>>

\* fs.copyFile(originalPath, outputOriginalPath) has settled (a failed copy
\* leaves no destination); on success the processor call returns and the
\* handler issues fs.unlink(req.file.path)
CopyFileDone(r) ==
    /\ pc[r] = "copyFile"
    /\ \/ /\ r \in tmp
          /\ OriginalsDir \in dirs
          /\ files' = (outputOriginalPath(out[r]) :> req[r].body) @@ files
          /\ Settled(r, "copyFile", outputOriginalPath(out[r]), TRUE, TRUE)
          /\ Logged(r, <<"save:end">>)
          /\ pc' = [pc EXCEPT ![r] = "unlink"]
          /\ resp' = resp
       \/ /\ Settled(r, "copyFile", outputOriginalPath(out[r]), FALSE, FALSE)
          /\ Catch(r, <<"EIO: copyfile">>)
          /\ Logged(r, <<"save:fail">>)
          /\ files' = files
    /\ UNCHANGED <<req, tmp, buf, doc, out, remote, dirs, clock, ctor, wb, flat>>

\* fs.unlink(req.file.path) has settled: res.json(result), or the catch
UnlinkDone(r) ==
    /\ pc[r] = "unlink"
    /\ \/ /\ tmp' = tmp \ {r}
          /\ Send(r, 200, doc[r])
          /\ pc' = [pc EXCEPT ![r] = "done"]
       \/ /\ Catch(r, <<"EPERM: operation not permitted, unlink">>)
          /\ tmp' = tmp
    /\ UNCHANGED <<req, buf, doc, out, log, remote, ops, dirs, files, clock, ctor, wb, flat>>

\* ------------------------------------------------------------ specification
\* an awaited operation of request r settles and its continuation runs
Settle(r) ==
    \/ ReadFileDone(r)
    \/ TikaDone(r)
    \/ TikaTextDone(r)
    \/ MetaDone(r)
    \/ MetaJsonDone(r)
    \/ WriteFileDone(r)
    \/ MkdirDone(r)
    \/ CopyFileDone(r)
    \/ UnlinkDone(r)

Next ==
    \/ EnsureAccess
    \/ EnsureMkdir
    \/ Tick
    \/ \E r \in Reqs : Post(r)
    \/ \E r \in Reqs : Settle(r)

Spec == Init /\ [][Next]_vars

\* The service with at most NumFairReqs requests, under the fairness the
\* event loop gives: every awaited operation eventually settles and its
\* continuation then runs. Nothing obliges a client to send a request.
NextFair ==
    \/ EnsureAccess
    \/ EnsureMkdir
    \/ Tick
    \/ \E r \in 1..NumFairReqs : Post(r)
    \/ \E r \in 1..NumFairReqs : Settle(r)

FairSpec ==
    /\ Init
    /\ [][NextFair]_vars
    /\ \A r \in 1..NumFairReqs : WF_vars(Settle(r))

\* ------------------------------------------- processXLSX as a pure function
\* The workbooks read() can decode: 1..MaxSheets sheets of 0..MaxRows rows; a
\* row is a blank row, a row of one or two cells, or a keyed row.
RowChoices ==
    { ArrayRow(<<>>), ArrayRow(<<Str("x")>>), ArrayRow(<<Str("x"), Str("y")>>),
      ObjectRow(<<Str("x"), Str("y")>>) }

RowSeqs(maxRows) == UNION {[1..n -> RowChoices] : n \in 0..maxRows}

Workbooks(maxSheets, maxRows) ==
    UNION { {[i \in 1..n |-> [name |-> Str(Digit(i)), rows |-> f[i]]] :
                f \in [1..n -> RowSeqs(maxRows)]} : n \in 1..maxSheets }

\* the buffers handed to processXLSX: the workbooks, and bytes read() rejects
Buffers(maxSheets, maxRows) ==
    {Xlsx(0, w) : w \in Workbooks(maxSheets, maxRows)} \cup {Bytes(0)}

InitFlatten ==
    /\ pc = [r \in Reqs |-> "idle"]
    /\ req = [r \in Reqs |-> NoFile]
    /\ tmp = {}
    /\ buf = [r \in Reqs |-> NoBody]
    /\ doc = [r \in Reqs |-> NoDoc]
    /\ out = [r \in Reqs |-> <<>>]
    /\ resp = [r \in Reqs |-> <<>>]
    /\ log = [r \in Reqs |-> <<>>]
    /\ remote = [r \in Reqs |-> <<>>]
    /\ ops = [r \in Reqs |-> <<>>]
    /\ dirs = {CompletedDir}
    /\ files = <<>>
    /\ clock = 0
    /\ ctor = "done"
    /\ wb \in {[buffer |-> b, flattened |-> FALSE] : b \in Buffers(MaxSheets, MaxRows)}
    /\ flat = [ok |-> FALSE, value |-> <<>>]

\* processXLSX(buffer) is called and returns
Flatten ==
    /\ ~wb.flattened
    /\ flat' = processXLSX(wb.buffer)
    /\ wb' = [wb EXCEPT !.flattened = TRUE]
    /\ UNCHANGED <<pc, req, tmp, buf, doc, out, resp, log, remote, ops, dirs,
                   files, clock, ctor>>

NextFlatten == Flatten

FlattenSpec == InitFlatten /\ [][NextFlatten]_vars

\* ------------------------------------------------------------------ claims
StatusOf(r) == resp[r][1].status
Has(r, status) == resp[r] # <<>> /\ StatusOf(r) = status

IsJsonMade(o) == o.op = "writeFile" /\ o.made
IsCopyMade(o) == o.op = "copyFile" /\ o.made
\* the archive paths at which request r has left a file
MadePaths(r) ==
    {ops[r][i].path : i \in {j \in 1..Len(ops[r]) :
                                IsJsonMade(ops[r][j]) \/ IsCopyMade(ops[r][j])}}

JsonSuffix == <<".", "j", "s", "o", "n">>
SameInstant(r, q) == doc[r].processingDate = doc[q].processingDate

\* C1: a request answered 200 has written exactly one JSON entry in the
\* archive root and exactly one copy under originals/, the entry being named
\* '<timestamp>_<filename>.json' and the copy '<timestamp>_<filename>', with
\* the same timestamp and the request's own filename; both files exist.
C1_OneEntryOneOriginal ==
    \A r \in Reqs : Has(r, 200) =>
        LET json == SelectSeq(ops[r], IsJsonMade)
            orig == SelectSeq(ops[r], IsCopyMade)
        IN /\ Len(json) = 1
           /\ Len(orig) = 1
           /\ json[1].path[1] = "completed"
           /\ orig[1].path[1] = "completed/originals"
           /\ json[1].path[2] = orig[1].path[2] \o JsonSuffix
           /\ \E t \in 0..MaxClock :
                orig[1].path[2] = timestamp(t) \o <<"_">> \o req[r].originalname
           /\ json[1].path \in DOMAIN files
           /\ orig[1].path \in DOMAIN files

\* C1 witness: a document request and a spreadsheet request both answered 200
C1_Witness ==
    \E r, q \in Reqs :
        /\ Has(r, 200) /\ log[r][1] = "tika:start"
        /\ Has(q, 200) /\ log[q][1] = "flatten:start"

\* C2: when PUT /meta is answered with a non-success status, on either path,
\* the request is answered 500 with details containing the remote status
\* text, saveProcessedDocument is never entered, and the request performs no
\* archive operation (so it creates no file in the archive).
C2_MetadataFailure ==
    \A r \in Reqs : \A i \in 1..Len(remote[r]) :
        (remote[r][i].call = "meta" /\ remote[r][i].status \in StatusTexts) =>
            /\ Len(resp[r]) = 1
            /\ StatusOf(r) = 500
            /\ resp[r][1].body.error = "Failed to process document"
            /\ remote[r][i].status \in Range(resp[r][1].body.details)
            /\ "save:start" \notin Range(log[r])
            /\ ops[r] = <<>>

\* C2 witness: the metadata call failed on the document path of one request
\* and on the spreadsheet path of another
C2_Witness ==
    \E r, q \in Reqs :
        /\ log[r] # <<>> /\ log[r][1] = "tika:start"
        /\ log[q] # <<>> /\ log[q][1] = "flatten:start"
        /\ \A x \in {r, q} :
             /\ remote[x] # <<>>
             /\ remote[x][Len(remote[x])].call = "meta"
             /\ remote[x][Len(remote[x])].status \in StatusTexts

\* C3 (as claimed): once a request that carried a file has been answered, with
\* 200 or with 500, its temporary upload file no longer exists.
C3_TempFileDeleted ==
    \A r \in Reqs : (req[r].present /\ resp[r] # <<>>) => r \notin tmp

\* C4: the steps of one request run in order and never overlap.
DocumentSteps ==
    <<"tika:start", "tika:end", "meta:start", "meta:end", "save:start", "save:end">>
SpreadsheetSteps ==
    <<"flatten:start", "flatten:end", "meta:start", "meta:end", "save:start",
      "save:end">>
FailOf(start) ==
    CASE start = "tika:start" -> "tika:fail"
      [] start = "flatten:start" -> "flatten:fail"
      [] start = "meta:start" -> "meta:fail"
      [] start = "save:start" -> "save:fail"
      [] OTHER -> "none"
\* l is a run of the pipeline: a prefix of the steps, or a prefix that ends
\* with a started step followed by that step's failure and nothing more
IsRunOf(l, steps) ==
    \E k \in 0..Len(steps) :
        \/ l = SubSeq(steps, 1, k)
        \/ /\ k > 0
           /\ FailOf(steps[k]) # "none"
           /\ l = Append(SubSeq(steps, 1, k), FailOf(steps[k]))

\* C4: every request's steps form a run of the document pipeline (extraction,
\* metadata, persistence) or of the spreadsheet pipeline (flattening,
\* metadata, persistence): no step starts before the one before it has
\* ended, and nothing starts after a failure. The remote calls and the
\* archive operations agree: /meta is answered only after /tika was answered
\* ok (document path), and the archive is touched only after /meta was ok.
C4_StepsInOrder ==
    \A r \in Reqs :
        /\ IsRunOf(log[r], DocumentSteps) \/ IsRunOf(log[r], SpreadsheetSteps)
        /\ \A i \in 1..Len(remote[r]) :
             remote[r][i].call = "meta" =>
                IF log[r][1] = "tika:start"
                THEN i = 2 /\ remote[r][1] = [call |-> "tika", status |-> "OK"]
                ELSE i = 1 /\ SubSeq(log[r], 1, 2) = <<"flatten:start", "flatten:end">>
        /\ \A i \in 1..Len(remote[r]) : remote[r][i].status # "OK" => i = Len(remote[r])
        /\ ops[r] # <<>> =>
             /\ remote[r][Len(remote[r])] = [call |-> "meta", status |-> "OK"]
             /\ "meta:end" \in Range(log[r])

\* C4 witness: a document request that ran all its steps, and a request whose
\* metadata call failed after a completed extraction
C4_Witness ==
    \E r, q \in Reqs :
        /\ log[r] = DocumentSteps
        /\ log[q] = <<"tika:start", "tika:end", "meta:start", "meta:fail">>

\* C5: two requests with different filenames that both succeed have written
\* disjoint sets of archive paths, and each one's JSON entry and original copy
\* hold its own content, metadata, filename and bytes (unless a further
\* request, of the same name and instant, wrote that path as well), also when
\* both computed the same timestamp.
C5_DistinctNamesDistinctPaths ==
    \A r, q \in Reqs :
        (r # q /\ Has(r, 200) /\ Has(q, 200)
             /\ req[r].originalname # req[q].originalname) =>
            /\ MadePaths(r) \cap MadePaths(q) = {}
            /\ \A x \in {r, q} :
                 LET json == SelectSeq(ops[x], IsJsonMade)[1].path
                     orig == SelectSeq(ops[x], IsCopyMade)[1].path
                     others == UNION {MadePaths(y) : y \in Reqs \ {r, q}}
                 IN /\ json \in others \/
                         /\ files[json].content = doc[x].content
                         /\ files[json].metadata = doc[x].metadata
                         /\ files[json].originalFilename = req[x].originalname
                    /\ orig \in others \/ files[orig] = req[x].body

\* C5 witness: two requests with different filenames succeeded at one instant
C5_Witness ==
    \E r, q \in Reqs :
        /\ r # q /\ Has(r, 200) /\ Has(q, 200)
        /\ req[r].originalname # req[q].originalname
        /\ SameInstant(r, q)

EnoentMessage == <<"ENOENT: no such file or directory, open">>

\* C6 (as claimed): saveProcessedDocument creates the archive directory when it
\* is absent, so no write of a JSON entry fails for lack of the directory: a
\* JSON write that settles while the archive root is absent still succeeds.
C6_SaveCreatesArchiveDir ==
    \A r \in Reqs :
        (ops[r] # <<>> /\ ops[r][1].op = "writeFile" /\ ~ops[r][1].ok) =>
            resp[r][1].body.details # EnoentMessage

\* the lines a workbook flattens to when blank rows are skipped
RECURSIVE CountNonEmpty(_)
CountNonEmpty(rows) ==
    IF rows = <<>> THEN 0
    ELSE (IF Len(rows[1].cells) > 0 THEN 1 ELSE 0) + CountNonEmpty(Tail(rows))
RECURSIVE ExpectedLines(_, _)
ExpectedLines(sheets, nSheets) ==
    IF sheets = <<>> THEN 0
    ELSE (IF nSheets > 1 THEN 1 ELSE 0) + CountNonEmpty(sheets[1].rows) + 1
         + ExpectedLines(Tail(sheets), nSheets)
Lines(text) == Cardinality({i \in 1..Len(text) : text[i] = "\n"})

\* C7 (as claimed): the text processXLSX returns has no line for a blank row:
\* each sheet contributes its header line (when the workbook has several
\* sheets), one line per non-empty row, and the blank line that ends it.
C7_EmptyRowsSkipped ==
    (wb.flattened /\ flat.ok) =>
        Lines(flat.value) = ExpectedLines(wb.buffer.sheets, Len(wb.buffer.sheets))

\* C8 (as claimed): the handler sends a request down the spreadsheet path
\* exactly when the extension the processor computes (path.extname, in lower
\* case) is '.xlsx' or '.csv', so that no request fails with 'Unsupported
\* spreadsheet format'.
C8_DispatchMatchesExtension ==
    \A r \in Reqs : log[r] # <<>> =>
        /\ (log[r][1] = "flatten:start") <=>
               (toLowerCase(extname(req[r].originalname)) \in {DotXlsx, DotCsv})
        /\ Has(r, 500) =>
               resp[r][1].body.details # <<"Unsupported spreadsheet format">>

\* C9: persistence is not atomic and never rolled back. The JSON write is the
\* request's first archive operation; when it fails nothing else is tried (no
\* originals/ directory, no copy); when the directory creation or the copy
\* fails after it, the JSON entry is still in the archive root; either way
\* the request is answered 500.
C9_NoRollback ==
    \A r \in Reqs : ops[r] # <<>> =>
        /\ ops[r][1].op = "writeFile"
        /\ \A i \in 2..Len(ops[r]) : ops[r][i].op \in {"mkdir", "copyFile"}
        /\ ~ops[r][1].ok => (Len(ops[r]) = 1 /\ Len(resp[r]) = 1 /\ StatusOf(r) = 500)
        /\ \A i \in 2..Len(ops[r]) : ~ops[r][i].ok =>
             /\ ops[r][1].ok
             /\ ops[r][1].path \in DOMAIN files
             /\ i = Len(ops[r])
             /\ Len(resp[r]) = 1
             /\ StatusOf(r) = 500

\* C9 witness: one request's copy failed after its JSON entry was written, and
\* another request's JSON write failed
C9_Witness ==
    \E r, q \in Reqs :
        /\ Len(ops[r]) = 3 /\ ~ops[r][3].ok /\ ops[r][1].path \in DOMAIN files
        /\ Len(ops[q]) = 1 /\ ~ops[q][1].ok

\* C10, the safety part: at most one response per request, with status 400
\* exactly for a request without a file, and 200 only after both archive files
\* were written, every remote call was ok and the temporary file was deleted.
AnsweredRight(r) ==
    /\ Len(resp[r]) <= 1
    /\ resp[r] # <<>> =>
         /\ StatusOf(r) \in {400, 200, 500}
         /\ pc[r] = "done"
         /\ (StatusOf(r) = 400) <=> ~req[r].present
         /\ StatusOf(r) = 200 =>
              /\ Len(SelectSeq(ops[r], IsJsonMade)) = 1
              /\ Len(SelectSeq(ops[r], IsCopyMade)) = 1
              /\ \A i \in 1..Len(ops[r]) : ops[r][i].ok
              /\ \A i \in 1..Len(remote[r]) : remote[r][i].status = "OK"
              /\ r \notin tmp

====
